---- MODULE Spec2Model ----
(***************************************************************************)
(* A model of the PostgreSQL MCP server (postgres/src/v1/server.py) and of *)
(* its guard and connection utilities (postgres/src/mlservice/db.py).      *)
(*                                                                         *)
(* A Python str is a sequence of strings whose concatenation is the text:  *)
(* query texts, table names, keywords and cell values are split into       *)
(* one-character strings, the literal parts of the messages the handlers   *)
(* build are kept as one element each.                                     *)
(***************************************************************************)
EXTENDS Integers, Sequences, FiniteSets, TLC

(***************************************************************************)
(* Bounds of the model.                                                    *)
(***************************************************************************)
\* number of workers of the hosting transport that run handlers
NumProcs == 2
\* a query text is the concatenation of at most this many fragments
MaxFragments == 2
\* connections the database server accepts at one time
MaxConns == 2

(***************************************************************************)
(* str methods used by the code                                            *)
(***************************************************************************)
LowerLetters ==
    <<"a","b","c","d","e","f","g","h","i","j","k","l","m","n","o","p","q","r","s","t","u","v","w","x","y","z">>

UpperLetters ==
    <<"A","B","C","D","E","F","G","H","I","J","K","L","M","N","O","P","Q","R","S","T","U","V","W","X","Y","Z">>

Digits ==
    <<"0","1","2","3","4","5","6","7","8","9">>

\* the characters str.strip() removes and \s matches
Whitespace ==
    {" ", "\n", "\t"}

Range(s) ==
    {s[i] : i \in 1..Len(s)}

IndexOf(s, c) ==
    CHOOSE i \in 1..Len(s) : s[i] = c

\* str.upper() on one character
UpperChar(c) ==
    IF c \in Range(LowerLetters) THEN UpperLetters[IndexOf(LowerLetters, c)] ELSE c

\* str.lower() on one character
LowerChar(c) ==
    IF c \in Range(UpperLetters) THEN LowerLetters[IndexOf(UpperLetters, c)] ELSE c

Upper(s) ==
    [i \in 1..Len(s) |-> UpperChar(s[i])]

Lower(s) ==
    [i \in 1..Len(s) |-> LowerChar(s[i])]

\* str.strip(): leading and trailing whitespace removed
Strip(s) ==
    LET keep == {i \in 1..Len(s) : s[i] \notin Whitespace}
    IN  IF keep = {} THEN <<>>
        ELSE LET lo == CHOOSE i \in keep : \A j \in keep : i <= j
                 hi == CHOOSE i \in keep : \A j \in keep : j <= i
             IN  SubSeq(s, lo, hi)

\* w occurs in s at position i
MatchAt(s, i, w) ==
    /\ i >= 1
    /\ i + Len(w) - 1 <= Len(s)
    /\ \A k \in 1..Len(w) : s[i + k - 1] = w[k]

\* str.startswith(w)
StartsWith(s, w) ==
    MatchAt(s, 1, w)

\* w in s
Contains(s, w) ==
    \E i \in 1..Len(s) : MatchAt(s, i, w)

\* sep.join(parts), computed by halves
RECURSIVE Join(_, _)
Join(parts, sep) ==
    IF parts = <<>> THEN <<>>
    ELSE IF Len(parts) = 1 THEN parts[1]
    ELSE LET h == Len(parts) \div 2
         IN  Join(SubSeq(parts, 1, h), sep) \o sep
                 \o Join(SubSeq(parts, h + 1, Len(parts)), sep)

\* str.isalnum(): non-empty and every character a letter or a digit
IsAlnum(s) ==
    /\ s # <<>>
    /\ \A i \in 1..Len(s) :
          s[i] \in Range(LowerLetters) \cup Range(UpperLetters) \cup Range(Digits)

\* str.replace(c, "") for a single character c
RECURSIVE RemoveChar(_, _)
RemoveChar(s, c) ==
    IF s = <<>> THEN <<>>
    ELSE IF Head(s) = c THEN RemoveChar(Tail(s), c)
    ELSE <<Head(s)>> \o RemoveChar(Tail(s), c)

\* str(n) for an integer n
RECURSIVE NatStr(_)
NatStr(n) ==
    IF n < 10 THEN <<Digits[n + 1]>>
    ELSE NatStr(n \div 10) \o <<Digits[(n % 10) + 1]>>

IntStr(n) ==
    IF n < 0 THEN <<"-">> \o NatStr(0 - n) ELSE NatStr(n)

(***************************************************************************)
(* The regular expressions of SQL_INJECTION_PATTERNS, as re.search         *)
(* evaluates them on the lowercased query.                                 *)
(***************************************************************************)
\* \w
IsWordChar(c) ==
    c \in Range(LowerLetters) \cup Range(UpperLetters) \cup Range(Digits) \cup {"_"}

WordCharAt(s, i) ==
    i >= 1 /\ i <= Len(s) /\ IsWordChar(s[i])

\* \b between positions i-1 and i
Boundary(s, i) ==
    WordCharAt(s, i - 1) # WordCharAt(s, i)

\* \b w \b at position i
WordAt(s, i, w) ==
    MatchAt(s, i, w) /\ Boundary(s, i) /\ Boundary(s, i + Len(w))

HasWord(s, w) ==
    \E i \in 1..Len(s) : WordAt(s, i, w)

\* the position after \s* (resp. \d*) matched greedily from i
RECURSIVE SkipSpaces(_, _)
SkipSpaces(s, i) ==
    IF i <= Len(s) /\ s[i] \in Whitespace THEN SkipSpaces(s, i + 1) ELSE i

RECURSIVE SkipDigits(_, _)
SkipDigits(s, i) ==
    IF i <= Len(s) /\ s[i] \in Range(Digits) THEN SkipDigits(s, i + 1) ELSE i

StatementVerbs ==
    { <<"u","n","i","o","n">>, <<"s","e","l","e","c","t">>, <<"i","n","s","e","r","t">>, <<"u","p","d","a","t","e">>, <<"d","e","l","e","t","e">>, <<"d","r","o","p">>, <<"c","r","e","a","t","e">>,
      <<"a","l","t","e","r">>, <<"e","x","e","c">>, <<"e","x","e","c","u","t","e">> }

StatementTargets ==
    { <<"f","r","o","m">>, <<"i","n","t","o">>, <<"w","h","e","r","e">>, <<"t","a","b","l","e">> }

\* (\b(union|select|...)\b.*\b(from|into|where|table)\b) ; . matches no newline
PatternStatement(s) ==
    \E i \in 1..Len(s), v \in StatementVerbs :
        /\ WordAt(s, i, v)
        /\ \E j \in (i + Len(v))..Len(s), t \in StatementTargets :
              /\ WordAt(s, j, t)
              /\ \A k \in (i + Len(v))..(j - 1) : s[k] # "\n"

\* the comment pattern with the # alternative lost
PatternComment_NoHash(s) ==
    \E m \in { <<"-","-">>, <<"/","*">>, <<"*","/">>, <<";">> } : Contains(s, m)

\* (--|\#|\/\*|\*\/|;)
PatternComment(s) ==
    \E m \in { <<"-","-">>, <<"#">>, <<"/","*">>, <<"*","/">>, <<";">> } : Contains(s, m)

\* (\b(or|and)\b\s*\d+\s*=\s*\d+)
PatternTautology(s) ==
    \E i \in 1..Len(s), w \in { <<"o","r">>, <<"a","n","d">> } :
        /\ WordAt(s, i, w)
        /\ LET a == SkipSpaces(s, i + Len(w))
               b == SkipDigits(s, a)
               c == SkipSpaces(s, b)
               d == SkipSpaces(s, c + 1)
               e == SkipDigits(s, d)
           IN  /\ b > a
               /\ c <= Len(s) /\ s[c] = "="
               /\ e > d

\* (\b(sleep|benchmark|waitfor)\b)
PatternTiming(s) ==
    \E w \in { <<"s","l","e","e","p">>, <<"b","e","n","c","h","m","a","r","k">>, <<"w","a","i","t","f","o","r">> } : HasWord(s, w)

\* (@@version|version\(\)|database\(\)|user\(\))
PatternInfo(s) ==
    \E m \in { <<"@","@","v","e","r","s","i","o","n">>, <<"v","e","r","s","i","o","n","(",")">>, <<"d","a","t","a","b","a","s","e","(",")">>, <<"u","s","e","r","(",")">> } : Contains(s, m)

\* (\binto\s+(outfile|dumpfile)\b)
PatternFile(s) ==
    \E i \in 1..Len(s), w \in { <<"o","u","t","f","i","l","e">>, <<"d","u","m","p","f","i","l","e">> } :
        /\ MatchAt(s, i, <<"i","n","t","o">>)
        /\ Boundary(s, i)
        /\ LET a == SkipSpaces(s, i + 4)
           IN  a > i + 4 /\ MatchAt(s, a, w) /\ Boundary(s, a + Len(w))

\* (xp_cmdshell|sp_executesql)
PatternProcedure(s) ==
    \E m \in { <<"x","p","_","c","m","d","s","h","e","l","l">>, <<"s","p","_","e","x","e","c","u","t","e","s","q","l">> } : Contains(s, m)

NumPatterns ==
    7

\* re.search(SQL_INJECTION_PATTERNS[k], s, re.IGNORECASE) on an already lowercased s
PatternMatches(k, s) ==
    CASE k = 1 -> PatternStatement(s)
      [] k = 2 -> PatternComment(s)
      [] k = 3 -> PatternTautology(s)
      [] k = 4 -> PatternTiming(s)
      [] k = 5 -> PatternInfo(s)
      [] k = 6 -> PatternFile(s)
      [] k = 7 -> PatternProcedure(s)

\* pattern[:50] of each pattern
PatternPrefix ==
    << "(\\b(union|select|insert|update|delete|drop|create|",
       "(--|\\#|\\/\\*|\\*\\/|;)",
       "(\\b(or|and)\\b\\s*\\d+\\s*=\\s*\\d+)",
       "(\\b(sleep|benchmark|waitfor)\\b)",
       "(@@version|version\\(\\)|database\\(\\)|user\\(\\))",
       "(\\binto\\s+(outfile|dumpfile)\\b)",
       "(xp_cmdshell|sp_executesql)" >>

\* f"Suspicious pattern detected: {pattern[:50]}..."
Finding(k) ==
    << "Suspicious pattern detected: ", PatternPrefix[k], "..." >>

MUTATING_KEYWORDS ==
    << <<"I","N","S","E","R","T">>, <<"U","P","D","A","T","E">>, <<"D","E","L","E","T","E">>, <<"M","E","R","G","E">>, <<"T","R","U","N","C","A","T","E">>,
       <<"C","R","E","A","T","E">>, <<"D","R","O","P">>, <<"A","L","T","E","R">>, <<"R","E","N","A","M","E">>, <<"G","R","A","N","T">>, <<"R","E","V","O","K","E">>,
       <<"C","O","M","M","E","N","T"," ","O","N">>, <<"S","E","C","U","R","I","T","Y"," ","L","A","B","E","L">>, <<"C","R","E","A","T","E"," ","E","X","T","E","N","S","I","O","N">>, <<"C","R","E","A","T","E"," ","F","U","N","C","T","I","O","N">>,
       <<"I","N","S","T","A","L","L">>, <<"C","L","U","S","T","E","R">>, <<"R","E","I","N","D","E","X">>, <<"V","A","C","U","U","M">>, <<"A","N","A","L","Y","Z","E">> >>

\* the subsequence of s at the positions in keep, in order
RECURSIVE Select(_, _, _)
Select(s, keep, i) ==
    IF i > Len(s) THEN <<>>
    ELSE (IF i \in keep THEN <<s[i]>> ELSE <<>>) \o Select(s, keep, i + 1)

\* the patterns that match, in list order
MatchedPatterns(query) ==
    LET query_lower == Lower(query)
    IN  Select([k \in 1..NumPatterns |-> k],
               {k \in 1..NumPatterns : PatternMatches(k, query_lower)}, 1)

check_sql_injection_risk(query) ==
    LET hit == MatchedPatterns(query)
    IN  [i \in 1..Len(hit) |-> Finding(hit[i])]

KeywordDetected(query_upper, keyword) ==
    \/ StartsWith(query_upper, keyword)
    \/ Contains(query_upper, <<" ">> \o keyword \o <<" ">>)

detect_mutating_keywords(query) ==
    LET query_upper == Strip(Upper(query))
    IN  Select(MUTATING_KEYWORDS,
               {k \in 1..Len(MUTATING_KEYWORDS) :
                    KeywordDetected(query_upper, MUTATING_KEYWORDS[k])}, 1)


(***************************************************************************)
(* The database driver, as the handlers see it.  What the server answers   *)
(* to a statement is the environment's choice: a DriverOutcome says at     *)
(* which driver call, if any, an error is raised, and what the cursor      *)
(* holds otherwise.  conn.cursor(), cursor.close() and conn.close() raise  *)
(* nothing on an open connection.                                          *)
(***************************************************************************)
NoErr ==
    "no error"

\* str(e) of the errors the driver raises
DriverErrors ==
    { "syntax error at or near", "violates unique constraint", "network error" }

\* str(v) of a cell value
PyStr(cell) ==
    CASE cell.t = "int" -> IntStr(cell.v)
      [] cell.t = "str" -> cell.v
      [] cell.t = "none" -> <<"N","o","n","e">>

IntCell(n) ==
    [t |-> "int", v |-> n]

StrCell(s) ==
    [t |-> "str", v |-> s]

NoneCell ==
    [t |-> "none"]

\* result sets a statement may produce
SelectOne ==
    [columns |-> << <<"?","c","o","l","u","m","n","?">> >>, rows |-> << <<IntCell(1)>> >>]

PeopleRows ==
    << <<IntCell(1), StrCell(<<"a","n","n">>)>>,
       <<IntCell(-2), StrCell(<<"o",",","k">>)>>,
       <<IntCell(30), NoneCell>> >>

People(n) ==
    [columns |-> << <<"i","d">>, <<"n","a","m","e">> >>, rows |-> SubSeq(PeopleRows, 1, n)]

\* rows 1..n of a one-column table of n consecutive integers
Numbers(n) ==
    [columns |-> << <<"n">> >>, rows |-> [i \in 1..n |-> <<IntCell(i)>>]]

Outcome(exec_err, returns_rows, rs, fetch_err, commit_err, rowcount) ==
    [exec_err |-> exec_err, returns_rows |-> returns_rows,
     columns |-> rs.columns, rows |-> rs.rows,
     fetch_err |-> fetch_err, commit_err |-> commit_err, rowcount |-> rowcount]

NoRows ==
    [columns |-> <<>>, rows |-> <<>>]

\* the server's answers to an arbitrary statement
ResultSets ==
    { SelectOne, Numbers(101) } \cup { People(n) : n \in 0..3 }

SqlOutcomes ==
    { Outcome(NoErr, TRUE, rs, NoErr, NoErr, Len(rs.rows)) : rs \in ResultSets }
    \cup { Outcome(NoErr, FALSE, NoRows, NoErr, NoErr, n) : n \in {-1, 0, 2} }
    \cup { Outcome(e, FALSE, NoRows, NoErr, NoErr, -1) : e \in DriverErrors }
    \cup { Outcome(NoErr, TRUE, People(2), "network error", NoErr, 2),
           Outcome(NoErr, FALSE, NoRows, NoErr, "network error", 1) }

(***************************************************************************)
(* execute_sql                                                             *)
(***************************************************************************)
Return(v) ==
    [kind |-> "return", value |-> v]

Raise(msg) ==
    [kind |-> "raise", value |-> msg]

ReadOnlyError(matches) ==
    << "Error: Read-only mode is enabled. Detected mutating keywords: " >>
        \o Join(matches, <<","," ">>)

InjectionError(issues) ==
    << "Error: Query contains suspicious patterns: " >> \o Join(issues, <<","," ">>)

ExecutionError(msg) ==
    << "Error executing query: ", msg >>

RowsAffected(n) ==
    << "Query executed successfully. Rows affected: " >> \o IntStr(n)

\* ",".join(columns), then ",".join(map(str, row)) for each row, joined by "\n"
FormatCsv(columns, rows) ==
    Join(<< Join(columns, <<",">>) >>
            \o [i \in 1..Len(rows) |->
                   Join([j \in 1..Len(rows[i]) |-> PyStr(rows[i][j])], <<",">>)],
         <<"\n">>)

\* the checks of execute_sql in the order a buggy version would make them:
\* the injection check first
GuardVerdict_InjectionFirst(ro, query) ==
    LET matches == IF ro THEN detect_mutating_keywords(query) ELSE <<>>
        issues == check_sql_injection_risk(query)
    IN  IF issues # <<>> THEN InjectionError(issues)
        ELSE IF matches # <<>> THEN ReadOnlyError(matches)
        ELSE <<>>

\* the checks of execute_sql before it asks for a connection: the error it
\* returns, or <<>> when the query passes
GuardVerdict(ro, query) ==
    LET matches == IF ro THEN detect_mutating_keywords(query) ELSE <<>>
        issues == check_sql_injection_risk(query)
    IN  IF matches # <<>> THEN ReadOnlyError(matches)
        ELSE IF issues # <<>> THEN InjectionError(issues)
        ELSE <<>>

\* an except clause that lets the error through
Caught_Reraise(msg, made) ==
    [result |-> Raise(msg), calls |-> << "cursor" >> \o made \o << "cursor.close" >>]

\* the except and finally clauses of execute_sql: an exception with message
\* msg, raised after the driver calls `made`, becomes the text returned, and
\* the cursor is closed
Caught(msg, made) ==
    [result |-> Return(ExecutionError(msg)),
     calls |-> << "cursor" >> \o made \o << "cursor.close" >>]

\* a SELECT branch that commits once the rows are fetched
ReadBranch_Commit(o) ==
    IF ~o.returns_rows
    THEN Caught("'NoneType' object is not iterable", << "execute" >>)
    ELSE IF o.fetch_err # NoErr
    THEN Caught(o.fetch_err, << "execute", "fetchall" >>)
    ELSE [result |-> Return(FormatCsv(o.columns, o.rows)),
          calls |-> << "cursor", "execute", "fetchall", "commit", "cursor.close" >>]

\* the SELECT branch: the column names are read from cursor.description, which
\* is None when the statement returned no rows, and the rows are fetched
ReadBranch(o) ==
    IF ~o.returns_rows
    THEN Caught("'NoneType' object is not iterable", << "execute" >>)
    ELSE IF o.fetch_err # NoErr
    THEN Caught(o.fetch_err, << "execute", "fetchall" >>)
    ELSE [result |-> Return(FormatCsv(o.columns, o.rows)),
          calls |-> << "cursor", "execute", "fetchall", "cursor.close" >>]

\* a non-SELECT branch that forgets conn.commit()
WriteBranch_NoCommit(o) ==
    [result |-> Return(RowsAffected(o.rowcount)),
     calls |-> << "cursor", "execute", "cursor.close" >>]

\* the non-SELECT branch: commit, then the row count
WriteBranch(o) ==
    IF o.commit_err # NoErr
    THEN Caught(o.commit_err, << "execute", "commit" >>)
    ELSE [result |-> Return(RowsAffected(o.rowcount)),
          calls |-> << "cursor", "execute", "commit", "cursor.close" >>]

\* a classification that forgets strip()
IsReadStatement_NoStrip(query) ==
    StartsWith(Upper(query), <<"S","E","L","E","C","T">>) \/ StartsWith(Upper(query), <<"W","I","T","H">>)

\* query.strip().upper().startswith(("SELECT", "WITH"))
IsReadStatement(query) ==
    LET q == Upper(Strip(query))
    IN  StartsWith(q, <<"S","E","L","E","C","T">>) \/ StartsWith(q, <<"W","I","T","H">>)

\* the body of execute_sql's with block on an open connection, the server
\* answering o: what is returned and the driver calls made, in order
ExecuteBody(query, o) ==
    IF o.exec_err # NoErr THEN Caught(o.exec_err, << "execute" >>)
    ELSE IF IsReadStatement(query) THEN ReadBranch(o)
    ELSE WriteBranch(o)

(***************************************************************************)
(* The query texts callers send: concatenations of fragments.              *)
(***************************************************************************)
Fragments ==
    { <<"S","E","L","E","C","T"," ","1">>, <<"s","e","l","e","c","t">>, <<" ">>, <<"\n">>, <<"D","E","L","E","T","E">>, <<" ","F","R","O","M"," ","t">>,
      <<"U","P","D","A","T","E"," ","t"," ","S","E","T"," ","x","=","1">>, <<";">>, <<";"," ","-","-","d","r","o","p">>, <<"#">>, <<"/","*">>, <<"*","/">>,
      <<" ","o","r"," ","1","=","1">>, <<"W","i","t","h"," ","q"," ","A","s"," ","(","S","e","l","e","c","t"," ","2",")">>, <<"S","H","O","W"," ","x">>, <<"C","R","E","A","T","E"," ","E","X","T","E","N","S","I","O","N"," ","e">>,
      <<" ","v","e","r","s","i","o","n","(",")">>, <<" ","S","l","e","e","p">>, <<" ","i","n","t","o"," ","o","u","t","f","i","l","e">>, <<" ","x","p","_","c","m","d","s","h","e","l","l">> }

RECURSIVE Concats(_)
Concats(n) ==
    IF n = 0 THEN { <<>> }
    ELSE LET shorter == Concats(n - 1)
         IN  shorter \cup { q \o f : q \in shorter, f \in Fragments }

Queries ==
    Concats(MaxFragments)

\* the few texts sent when handlers run in parallel
ParallelQueries ==
    { <<"D","E","L","E","T","E"," ","F","R","O","M"," ","t">>, <<"S","E","L","E","C","T"," ","1">>, <<"U","P","D","A","T","E"," ","t"," ","S","E","T"," ","x","=","1">> }

ParallelOutcomes ==
    { Outcome(NoErr, TRUE, SelectOne, NoErr, NoErr, 1),
      Outcome(NoErr, FALSE, NoRows, NoErr, NoErr, 1),
      Outcome("network error", FALSE, NoRows, NoErr, NoErr, -1) }

(***************************************************************************)
(* The system catalog the introspection queries read.  An optional value   *)
(* (a nullable column, a Python None) is <<>> or <<v>>.                    *)
(***************************************************************************)
None ==
    <<>>

Some(v) ==
    <<v>>

\* the relation names of the fixture, in ascending collation order
NameOrder ==
    << "customers", "order_totals", "orders", "sales_mv" >>

Rank(name) ==
    CHOOSE i \in 1..Len(NameOrder) : NameOrder[i] = name

Rel(schema, name, kind, description) ==
    [schema |-> schema, name |-> name, kind |-> kind, description |-> description]

\* pg_class joined with pg_namespace: the relations a catalog may hold.  kind is
\* relkind: r table, v view, m materialized view
RelUniverse ==
    { Rel("public", "orders", "r", Some("Customer orders")),
      Rel("public", "customers", "r", None),
      Rel("public", "order_totals", "v", Some("")),
      Rel("public", "sales_mv", "m", Some("Monthly sales")),
      Rel("archive", "orders", "r", Some("Archived orders")),
      Rel("archive", "customers", "v", None) }

Attr(attnum, name, data_type, typname, atttypmod, attnotnull, adsrc, attisdropped,
     description) ==
    [attnum |-> attnum, name |-> name, data_type |-> data_type, typname |-> typname,
     atttypmod |-> atttypmod, attnotnull |-> attnotnull, adsrc |-> adsrc,
     attisdropped |-> attisdropped, description |-> description]

\* pg_attribute with pg_type, pg_attrdef and the column comments, per relation
\* name (relations of one name have the same columns in the fixture)
AttrsOf(name) ==
    CASE name = "orders" ->
           { Attr(1, "id", "integer", "int4", -1, TRUE,
                  Some("nextval('orders_id_seq'::regclass)"), FALSE, None),
             Attr(2, "customer_id", "integer", "int4", -1, FALSE, None, FALSE,
                  Some("buyer")),
             Attr(3, "........pg.dropped.3........", "-", "int4", -1, FALSE, None, TRUE,
                  None),
             Attr(4, "note", "character varying(20)", "varchar", 24, FALSE, None, FALSE,
                  None),
             Attr(-1, "ctid", "tid", "tid", -1, TRUE, None, FALSE, None) }
      [] name = "customers" ->
           { Attr(1, "id", "integer", "int4", -1, TRUE, None, FALSE, None),
             Attr(2, "name", "text", "text", -1, FALSE, Some("'?'::text"), FALSE, None) }
      [] OTHER ->
           { Attr(1, "total", "numeric", "numeric", -1, FALSE, None, FALSE, None) }

Constraint(name, type, schema, table, column, ref) ==
    [name |-> name, type |-> type, schema |-> schema, table |-> table,
     column |-> column, ref |-> ref]

ColumnRef(schema, table, column) ==
    [schema |-> schema, table |-> table, column |-> column]

\* the key constraints a catalog may hold, each on one column: its row of
\* table_constraints, its row of key_column_usage and, for a foreign key, its row
\* of constraint_column_usage
ConstraintUniverse ==
    { Constraint("orders_pkey", "PRIMARY KEY", "public", "orders", "id", None),
      Constraint("orders_customer_fk", "FOREIGN KEY", "public", "orders", "customer_id",
                 Some(ColumnRef("public", "customers", "id"))),
      Constraint("orders_customer_key", "UNIQUE", "public", "orders", "customer_id",
                 None),
      Constraint("customers_pkey", "PRIMARY KEY", "public", "customers", "id", None) }

\* a constraint needs its table, and a foreign key the table it references
ConstraintFits(c, rels) ==
    /\ \E r \in rels : r.schema = c.schema /\ r.name = c.table /\ r.kind = "r"
    /\ c.ref # None
          => \E r \in rels : r.schema = c.ref[1].schema /\ r.name = c.ref[1].table

\* the catalog states
Catalogs ==
    { [rels |-> rels, constraints |-> cons] :
          rels \in SUBSET RelUniverse, cons \in SUBSET ConstraintUniverse }

ValidCatalogs ==
    { cat \in Catalogs : \A c \in cat.constraints : ConstraintFits(c, cat.rels) }

\* the orders in which the server may return the rows of a set whose ORDER BY
\* key is the field key: ascending, rows of equal key in any order
RECURSIVE SortedSeqs(_)
SortedSeqs(rows) ==
    IF rows = {} THEN { <<>> }
    ELSE UNION { { <<r>> \o rest : rest \in SortedSeqs(rows \ {r}) } :
                   r \in {x \in rows : \A y \in rows : x.key <= y.key} }

(***************************************************************************)
(* get_tables                                                              *)
(***************************************************************************)
\* information_schema.tables: the base tables and views
InformationSchemaTables(cat) ==
    { [table_schema |-> r.schema, table_name |-> r.name,
       table_type |-> IF r.kind = "r" THEN "BASE TABLE" ELSE "VIEW"] :
          r \in {x \in cat.rels : x.kind \in {"r", "v"}} }

\* the rows of the query of get_tables, each with the pg_class row (pgc) it was
\* joined from: the two LEFT JOINs keep every pg_class row of the table's name
TablesQueryRows(cat, schema_name) ==
    { [table_name |-> j[1].table_name, table_type |-> j[1].table_type,
       table_description |-> j[2].description, pgc |-> j[2],
       key |-> Rank(j[1].table_name)] :
          j \in {x \in InformationSchemaTables(cat) \X cat.rels :
                    /\ x[1].table_schema = schema_name
                    /\ x[2].name = x[1].table_name} }
    \cup
    { [table_name |-> pgc.name, table_type |-> "MATERIALIZED VIEW",
       table_description |-> pgc.description, pgc |-> pgc, key |-> Rank(pgc.name)] :
          pgc \in {x \in cat.rels : x.schema = schema_name /\ x.kind = "m"} }

\* truthiness of an optional string
Truthy(opt) ==
    opt # None /\ opt[1] # ""

\* the loop of get_tables over the fetched rows
TableInfos(tables) ==
    [i \in 1..Len(tables) |->
        [name |-> tables[i].table_name,
         type |-> tables[i].table_type,
         description |-> IF Truthy(tables[i].table_description)
                         THEN tables[i].table_description[1]
                         ELSE "No description available"]]

\* a get_tables whose except clause lets the error through
GetTablesBody_Raise(a) ==
    IF a.error # NoErr
    THEN [result |-> Raise(a.error),
          calls |-> << "cursor", "execute", "cursor.close" >>]
    ELSE [result |-> Return(TableInfos(a.rows)),
          calls |-> << "cursor", "execute", "fetchall", "cursor.close" >>]

\* the body of get_tables' with block, the server answering a: the catalog
\* query raises (at execute or at fetchall), or its rows are fetched and
\* converted
GetTablesBody(a) ==
    IF a.error # NoErr
    THEN [result |-> Return(<<>>),
          calls |-> IF a.at = "execute" THEN << "cursor", "execute", "cursor.close" >>
                    ELSE << "cursor", "execute", "fetchall", "cursor.close" >>]
    ELSE [result |-> Return(TableInfos(a.rows)),
          calls |-> << "cursor", "execute", "fetchall", "cursor.close" >>]

(***************************************************************************)
(* get_table_schemas                                                       *)
(***************************************************************************)
\* the CTE all_columns
AllColumns(cat, schema_name, tables) ==
    UNION { { [column_name |-> a.name,
               data_type |-> a.data_type,
               character_maximum_length |->
                   IF a.atttypmod > 0 /\ a.typname \in {"varchar", "char", "bpchar"}
                   THEN Some(a.atttypmod - 4) ELSE None,
               is_nullable |-> IF a.attnotnull THEN "NO" ELSE "YES",
               column_default |-> a.adsrc,
               table_name |-> c.name,
               table_schema |-> c.schema,
               ordinal_position |-> a.attnum,
               column_description |-> a.description,
               table_description |-> c.description] :
                  a \in {y \in AttrsOf(c.name) : y.attnum > 0 /\ ~y.attisdropped} } :
            c \in {x \in cat.rels : /\ x.kind \in {"r", "v", "m"}
                                    /\ x.schema = schema_name
                                    /\ x.name \in Range(tables)} }

\* a row of a LEFT JOIN's right side that matched nothing
NullRow ==
    [null |-> TRUE]

\* LEFT JOIN key_column_usage: the key constraints on the column, or one null row
KeyColumnUsage(cat, ac) ==
    LET hit == {k \in cat.constraints : /\ k.schema = ac.table_schema
                                        /\ k.table = ac.table_name
                                        /\ k.column = ac.column_name}
    IN  IF hit = {} THEN {NullRow} ELSE hit

\* LEFT JOIN table_constraints: the foreign keys of the constraint's name
TableConstraints(cat, kcu) ==
    LET hit == IF kcu = NullRow THEN {}
               ELSE {t \in cat.constraints :
                        t.name = kcu.name /\ t.type = "FOREIGN KEY"}
    IN  IF hit = {} THEN {NullRow} ELSE hit

\* LEFT JOIN constraint_column_usage: the columns the foreign key references
ConstraintColumnUsage(cat, tc) ==
    LET hit == IF tc = NullRow THEN {}
               ELSE {u \in cat.constraints : u.name = tc.name /\ u.ref # None}
    IN  IF hit = {} THEN {NullRow} ELSE hit

\* the rows of the query of get_table_schemas, each with the catalog rows it was
\* joined from
SchemasQueryRows(cat, schema_name, tables) ==
    { [ac |-> j[1], kcu |-> j[2], tc |-> j[3], ccu |-> j[4],
       key |-> Rank(j[1].table_name) * 100 + j[1].ordinal_position] :
          j \in UNION { UNION { UNION { { <<ac, kcu, tc, ccu>> :
                                              ccu \in ConstraintColumnUsage(cat, tc) } :
                                        tc \in TableConstraints(cat, kcu) } :
                                kcu \in KeyColumnUsage(cat, ac) } :
                        ac \in AllColumns(cat, schema_name, tables) } }

\* the tuple the cursor returns for a row of the query
SchemaTuple(row) ==
    [column_name |-> row.ac.column_name,
     data_type |-> row.ac.data_type,
     character_maximum_length |-> row.ac.character_maximum_length,
     is_nullable |-> row.ac.is_nullable,
     column_default |-> row.ac.column_default,
     column_description |-> row.ac.column_description,
     table_description |-> row.ac.table_description,
     table_name |-> row.ac.table_name,
     fk_constraint_name |-> IF row.tc = NullRow THEN None ELSE Some(row.tc.name),
     fk_referenced_schema |-> IF row.ccu = NullRow THEN None
                              ELSE Some(row.ccu.ref[1].schema),
     fk_referenced_table |-> IF row.ccu = NullRow THEN None
                             ELSE Some(row.ccu.ref[1].table),
     fk_referenced_column |-> IF row.ccu = NullRow THEN None
                              ELSE Some(row.ccu.ref[1].column)]

\* the dict appended to a table's columns for a fetched tuple
ColumnInfo(col) ==
    [name |-> col.column_name,
     type |-> col.data_type,
     max_length |-> col.character_maximum_length,
     nullable |-> col.is_nullable = "YES",
     default |-> col.column_default,
     description |-> IF Truthy(col.column_description) THEN col.column_description
                     ELSE None,
     foreign_key |-> IF Truthy(col.fk_constraint_name)
                     THEN Some([referenced_schema |-> col.fk_referenced_schema,
                                referenced_table |-> col.fk_referenced_table,
                                referenced_column |-> col.fk_referenced_column])
                     ELSE None]

\* the loop of get_table_schemas over columns[i..]: acc is the values of the
\* dict tables_schemas, in insertion order
RECURSIVE GroupColumns(_, _, _, _)
GroupColumns(columns, i, schema_name, acc) ==
    IF i > Len(columns) THEN acc
    ELSE LET col == columns[i]
             known == {k \in 1..Len(acc) : acc[k].name = col.table_name}
             with == IF known # {} THEN acc
                     ELSE Append(acc, [name |-> col.table_name,
                                       schema |-> schema_name,
                                       description |->
                                           IF Truthy(col.table_description)
                                           THEN col.table_description ELSE None,
                                       columns |-> <<>>])
             k == CHOOSE x \in 1..Len(with) : with[x].name = col.table_name
         IN  GroupColumns(columns, i + 1, schema_name,
                          [with EXCEPT ![k].columns = Append(@, ColumnInfo(col))])

\* the body of get_table_schemas' with block, the server answering a
GetTableSchemasBody(schema_name, a) ==
    IF a.error # NoErr
    THEN [result |-> Return(<<>>),
          calls |-> IF a.at = "execute" THEN << "cursor", "execute", "cursor.close" >>
                    ELSE << "cursor", "execute", "fetchall", "cursor.close" >>]
    ELSE [result |-> Return(GroupColumns(a.rows, 1, schema_name, <<>>)),
          calls |-> << "cursor", "execute", "fetchall", "cursor.close" >>]

(***************************************************************************)
(* get_table_data                                                          *)
(***************************************************************************)
max_rows ==
    100

\* a check that is content with one letter or digit in the name
ValidTableName_AnyAlnum(table_name) ==
    \E i \in 1..Len(table_name) : IsAlnum(<< table_name[i] >>)

\* the check of the table name: table_name.replace("_", "").isalnum()
ValidTableName(table_name) ==
    IsAlnum(RemoveChar(table_name, "_"))

\* f"SELECT * FROM {schema_name}.{table_name} LIMIT {max_rows}"
TableDataQuery(schema_name, table_name) ==
    <<"S","E","L","E","C","T"," ","*"," ","F","R","O","M"," ">> \o schema_name \o <<".">> \o table_name \o <<" ","L","I","M","I","T"," ">>
        \o IntStr(max_rows)

\* the number a string of digits denotes
RECURSIVE ParseNat(_)
ParseNat(s) ==
    IF s = <<>> THEN 0
    ELSE ParseNat(SubSeq(s, 1, Len(s) - 1)) * 10 + (IndexOf(Digits, s[Len(s)]) - 1)

\* the server's reading of "SELECT * FROM <relation> LIMIT <n>": the relation
\* and the limit
ParseSelectLimit(query) ==
    LET at == CHOOSE i \in 1..Len(query) : MatchAt(query, i, <<" ","L","I","M","I","T"," ">>)
    IN  [relation |-> SubSeq(query, 15, at - 1),
         limit |-> ParseNat(SubSeq(query, at + 7, Len(query)))]

\* the rows the server returns for the query on a table of n rows
SelectLimitRows(query, n) ==
    LET lim == ParseSelectLimit(query).limit
    IN  Numbers(IF n < lim THEN n ELSE lim)

\* the body of get_table_data's with block, the server answering a
GetTableDataBody(table_name, a) ==
    IF a.error # NoErr
    THEN [result |-> Return(<< "Error reading table " >> \o table_name
                                \o << ": ", a.error >>),
          calls |-> << "cursor", "execute", "cursor.close" >>]
    ELSE [result |-> Return(FormatCsv(a.columns, a.rows)),
          calls |-> << "cursor", "execute", "fetchall", "cursor.close" >>]

(***************************************************************************)
(* The server: NumProcs workers of the hosting transport, each running one *)
(* handler at a time.                                                      *)
(***************************************************************************)
VARIABLES
    read_only,  \* settings.read_only_connection
    parallel,   \* whether the transport runs handlers in parallel
    pc,         \* per worker: "idle", "running" (inside the with block), "done"
    call,       \* per worker: the handler invoked and its argument
    conn,       \* per worker: the connection get_connection yielded, 0 for none
    open,       \* the connections opened and not closed
    answer,     \* per worker: what the database answered to the handler's query
    trace,      \* per worker: the driver calls the invocation made, in order
    result      \* per worker: what the handler returned or raised

vars ==
    << read_only, parallel, pc, call, conn, open, answer, trace, result >>

Procs ==
    1..NumProcs

ConnIds ==
    1..MaxConns

NoCall ==
    [op |-> "none", arg |-> <<>>]

NoResult ==
    [kind |-> "none", value |-> <<>>]

NoAnswer ==
    [none |-> TRUE]

TypeOK ==
    /\ read_only \in BOOLEAN
    /\ parallel \in BOOLEAN
    /\ pc \in [Procs -> {"idle", "running", "done"}]
    /\ conn \in [Procs -> ConnIds \cup {0}]
    /\ open \subseteq ConnIds
    /\ \A p \in Procs : result[p].kind \in {"none", "return", "raise"}

InitWorkers ==
    /\ read_only \in BOOLEAN
    /\ pc = [p \in Procs |-> "idle"]
    /\ call = [p \in Procs |-> NoCall]
    /\ conn = [p \in Procs |-> 0]
    /\ open = {}
    /\ answer = [p \in Procs |-> NoAnswer]
    /\ trace = [p \in Procs |-> <<>>]
    /\ result = [p \in Procs |-> NoResult]

\* a transport that runs one handler at a time
Init ==
    parallel = FALSE /\ InitWorkers

\* a transport that runs handlers in parallel
InitParallel ==
    parallel = TRUE /\ InitWorkers

\* worker p may take a request
CanStart(p) ==
    /\ pc[p] = "idle"
    /\ parallel \/ p = 1

\* get_connection up to its yield: credentials are resolved and the driver
\* connects, which raises or opens a new connection
ConnectError ==
    "Database connection info not found or connection refused"

\* pg8000.connect: a connection that is not one of the open ones
NewConn(opened) ==
    CHOOSE id \in ConnIds \ opened : \A other \in ConnIds \ opened : id <= other

\* a get_connection without its finally clause
ReleaseConn_Leak(opened, c) ==
    opened

\* get_connection's finally: conn.close()
ReleaseConn(opened, c) ==
    opened \ {c}

\* the handler returns or raises before it asks for a connection
Finish(p, c, r) ==
    /\ pc' = [pc EXCEPT ![p] = "done"]
    /\ call' = [call EXCEPT ![p] = c]
    /\ result' = [result EXCEPT ![p] = r]
    /\ UNCHANGED << conn, open, answer, trace >>

\* the handler enters its with block: get_connection raises, or yields a
\* connection
Enter(p, c) ==
    /\ call' = [call EXCEPT ![p] = c]
    /\ \/ /\ pc' = [pc EXCEPT ![p] = "done"]
          /\ result' = [result EXCEPT ![p] = Raise(ConnectError)]
          /\ UNCHANGED << conn, open, answer, trace >>
       \/ /\ ConnIds \ open # {}
          /\ LET id == NewConn(open)
             IN  /\ conn' = [conn EXCEPT ![p] = id]
                 /\ open' = open \cup {id}
          /\ pc' = [pc EXCEPT ![p] = "running"]
          /\ trace' = [trace EXCEPT ![p] = << "connect" >>]
          /\ UNCHANGED << answer, result >>

\* the with block ends: its body made the driver calls `calls` and returned r,
\* and get_connection closes the connection
Leave(p, a, calls, r) ==
    /\ pc' = [pc EXCEPT ![p] = "done"]
    /\ answer' = [answer EXCEPT ![p] = a]
    /\ trace' = [trace EXCEPT ![p] = @ \o calls \o << "conn.close" >>]
    /\ result' = [result EXCEPT ![p] = r]
    /\ open' = ReleaseConn(open, conn[p])
    /\ conn' = [conn EXCEPT ![p] = 0]
    /\ UNCHANGED call

\* execute_sql(query), up to the with statement
Invoke_execute_sql(p) ==
    /\ CanStart(p)
    /\ \E query \in (IF parallel THEN ParallelQueries ELSE Queries) :
          LET c == [op |-> "execute_sql", arg |-> query]
              verdict == GuardVerdict(read_only, query)
          IN  IF verdict # <<>>
              THEN Finish(p, c, Return(verdict))
              ELSE Enter(p, c)
    /\ UNCHANGED << read_only, parallel >>

\* execute_sql: the with block
Run_execute_sql(p) ==
    /\ pc[p] = "running"
    /\ call[p].op = "execute_sql"
    /\ \E o \in (IF parallel THEN ParallelOutcomes ELSE SqlOutcomes) :
          LET b == ExecuteBody(call[p].arg, o)
          IN  Leave(p, o, b.calls, b.result)
    /\ UNCHANGED << read_only, parallel >>

\* the arguments callers pass to the introspection tools and the resource
SchemaNames ==
    IF parallel THEN {"public"} ELSE {"public", "archive"}

TableLists ==
    IF parallel THEN { << "orders" >> }
    ELSE { << "orders" >>, << "orders", "customers" >>, << "customers", "orders" >>,
           << "sales_mv" >>, << "nope" >>, << "orders", "nope", "orders" >>, <<>> }

TableNames ==
    IF parallel THEN { <<"o","r","d","e","r","s">>, <<"b","a","d","-","n","a","m","e">> }
    ELSE { <<"o","r","d","e","r","s">>, <<"o","r","d","e","r","_","i","t","e","m","s">>, <<"O","r","d","e","r","s","2">>, <<"_","t">>, <<"7">>, <<"n","o","p","e">>,
           <<"b","a","d","-","n","a","m","e">>, <<"a"," ","b">>, <<"t",";">>, <<"p","u","b","l","i","c",".","t">>, <<"t","\"">>, <<>>, <<"_","_">>, <<"x","\n">> }

\* the catalog states the server may be in when an introspection query runs
CatalogStates ==
    IF parallel
    THEN { [rels |-> {r \in RelUniverse : r.schema = "public"},
            constraints |-> {c \in ConstraintUniverse : c.type = "PRIMARY KEY"}] }
    ELSE ValidCatalogs

\* the sizes the table read by get_table_data may have
TableSizes ==
    IF parallel THEN {2} ELSE {0, 2, 99, 100, 101, 150}

\* the errors the driver raises for an introspection query
CatalogErrors ==
    IF parallel THEN {"network error"} ELSE {"network error", "permission denied"}

\* get_tables(schema_name), up to the with statement
Invoke_get_tables(p) ==
    /\ CanStart(p)
    /\ \E schema_name \in SchemaNames :
          Enter(p, [op |-> "get_tables", arg |-> schema_name])
    /\ UNCHANGED << read_only, parallel >>

\* get_tables: the with block
Run_get_tables(p) ==
    /\ pc[p] = "running"
    /\ call[p].op = "get_tables"
    /\ \/ \E e \in CatalogErrors, at \in {"execute", "fetchall"} :
             LET a == [error |-> e, at |-> at, rows |-> <<>>]
                 b == GetTablesBody(a)
             IN  Leave(p, a, b.calls, b.result)
       \/ \E cat \in CatalogStates :
             \E rows \in SortedSeqs(TablesQueryRows(cat, call[p].arg)) :
                LET a == [error |-> NoErr, catalog |-> cat, rows |-> rows]
                    b == GetTablesBody(a)
                IN  Leave(p, a, b.calls, b.result)
    /\ UNCHANGED << read_only, parallel >>

\* get_table_schemas(tables, schema_name), up to the with statement
Invoke_get_table_schemas(p) ==
    /\ CanStart(p)
    /\ \E tables \in TableLists, schema_name \in SchemaNames :
          Enter(p, [op |-> "get_table_schemas",
                    arg |-> [tables |-> tables, schema_name |-> schema_name]])
    /\ UNCHANGED << read_only, parallel >>

\* get_table_schemas: the with block
Run_get_table_schemas(p) ==
    /\ pc[p] = "running"
    /\ call[p].op = "get_table_schemas"
    /\ \/ \E e \in CatalogErrors, at \in {"execute", "fetchall"} :
             LET a == [error |-> e, at |-> at, rows |-> <<>>]
                 b == GetTableSchemasBody(call[p].arg.schema_name, a)
             IN  Leave(p, a, b.calls, b.result)
       \/ \E cat \in CatalogStates :
             \E rows \in SortedSeqs(SchemasQueryRows(cat, call[p].arg.schema_name,
                                                     call[p].arg.tables)) :
                LET a == [error |-> NoErr, catalog |-> cat,
                          rows |-> [i \in 1..Len(rows) |-> SchemaTuple(rows[i])]]
                    b == GetTableSchemasBody(call[p].arg.schema_name, a)
                IN  Leave(p, a, b.calls, b.result)
    /\ UNCHANGED << read_only, parallel >>

\* get_table_data(table_name), up to the with statement
Invoke_get_table_data(p) ==
    /\ CanStart(p)
    /\ \E table_name \in TableNames :
          LET c == [op |-> "get_table_data", arg |-> table_name]
          IN  IF ~ValidTableName(table_name)
              THEN Finish(p, c, Return(<< "Error: Invalid table name" >>))
              ELSE Enter(p, c)
    /\ UNCHANGED << read_only, parallel >>

\* get_table_data: the with block
Run_get_table_data(p) ==
    /\ pc[p] = "running"
    /\ call[p].op = "get_table_data"
    /\ LET query == TableDataQuery(<<"p","u","b","l","i","c">>, call[p].arg)
       IN  \/ \E e \in DriverErrors \cup {"relation does not exist"} :
                 LET a == [error |-> e, query |-> query]
                     b == GetTableDataBody(call[p].arg, a)
                 IN  Leave(p, a, b.calls, b.result)
           \/ \E n \in TableSizes :
                 LET rs == SelectLimitRows(query, n)
                     a == [error |-> NoErr, query |-> query, table_rows |-> n,
                           columns |-> rs.columns, rows |-> rs.rows]
                     b == GetTableDataBody(call[p].arg, a)
                 IN  Leave(p, a, b.calls, b.result)
    /\ UNCHANGED << read_only, parallel >>

\* the caller has received the result; the worker is free again
Respond(p) ==
    /\ pc[p] = "done"
    /\ pc' = [pc EXCEPT ![p] = "idle"]
    /\ call' = [call EXCEPT ![p] = NoCall]
    /\ answer' = [answer EXCEPT ![p] = NoAnswer]
    /\ trace' = [trace EXCEPT ![p] = <<>>]
    /\ result' = [result EXCEPT ![p] = NoResult]
    /\ UNCHANGED << read_only, parallel, conn, open >>

Next ==
    \E p \in Procs :
        \/ Invoke_execute_sql(p)
        \/ Run_execute_sql(p)
        \/ Invoke_get_tables(p)
        \/ Run_get_tables(p)
        \/ Invoke_get_table_schemas(p)
        \/ Run_get_table_schemas(p)
        \/ Invoke_get_table_data(p)
        \/ Run_get_table_data(p)
        \/ Respond(p)

Spec ==
    Init /\ [][Next]_vars

SpecParallel ==
    InitParallel /\ [][Next]_vars

(***************************************************************************)
(* Properties of execute_sql                                               *)
(***************************************************************************)
\* worker p is in, or has finished, a call of execute_sql
InExecuteSql(p) ==
    pc[p] # "idle" /\ call[p].op = "execute_sql"

\* the first n elements of s, all of s when it has fewer
Prefix(s, n) ==
    SubSeq(s, 1, IF n < Len(s) THEN n ELSE Len(s))

\* the upper-cased, trimmed text starts with keyword k of the list
StartsWithKeyword(query, k) ==
    Prefix(Strip(Upper(query)), Len(MUTATING_KEYWORDS[k])) = MUTATING_KEYWORDS[k]

\* the invocation of p ended before any connection was asked for
NeverTouchedDatabase(p) ==
    pc[p] = "done" /\ trace[p] = <<>> /\ conn[p] = 0 /\ answer[p] = NoAnswer /\ open = {}

IsReadOnlyError(r) ==
    /\ r.kind = "return"
    /\ r.value # <<>>
    /\ r.value[1] = "Error: Read-only mode is enabled. Detected mutating keywords: "

IsInjectionError(r) ==
    /\ r.kind = "return"
    /\ r.value # <<>>
    /\ r.value[1] = "Error: Query contains suspicious patterns: "

\* how many times x occurs in the sequence s
Count(s, x) ==
    Cardinality({i \in 1..Len(s) : s[i] = x})

\* C1: in read-only mode a query whose upper-cased, trimmed text starts with a
\* mutating keyword is answered with the read-only error, which names every
\* keyword the text starts with, whatever the injection patterns say, and no
\* connection is acquired and nothing is executed.
C1_MutationBlocked ==
    \A p \in Procs :
        (InExecuteSql(p) /\ read_only
            /\ \E k \in 1..Len(MUTATING_KEYWORDS) : StartsWithKeyword(call[p].arg, k))
        => /\ NeverTouchedDatabase(p)
           /\ IsReadOnlyError(result[p])
           /\ \A k \in 1..Len(MUTATING_KEYWORDS) :
                 StartsWithKeyword(call[p].arg, k)
                 => Contains(result[p].value, MUTATING_KEYWORDS[k])

\* C1's case: "DELETE FROM t", which an injection pattern matches too, is
\* answered with the read-only error in read-only mode
C1_Witness ==
    \E p \in Procs :
        /\ read_only
        /\ pc[p] = "done"
        /\ call[p] = [op |-> "execute_sql", arg |-> <<"D","E","L","E","T","E"," ","F","R","O","M"," ","t">>]
        /\ MatchedPatterns(call[p].arg) # <<>>
        /\ result[p] = Return(ReadOnlyError(<< <<"D","E","L","E","T","E">> >>))

\* the text holds one of the comment markers --, #, /*, */ or ;
HasCommentMarker(query) ==
    \E i \in 1..Len(query) :
        \/ query[i] \in {"#", ";"}
        \/ i < Len(query) /\ << query[i], query[i + 1] >> \in { <<"-","-">>, <<"/","*">>, <<"*","/">> }

\* the injection patterns matching the query
PatternsHit(query) ==
    {k \in 1..NumPatterns : PatternMatches(k, Lower(query))}

\* C2: a query that an injection pattern matches, in particular one holding a
\* comment marker, is not executed in either mode: an error text is returned
\* and no connection is acquired; unless the read-only check rejected it first,
\* the text is the suspicious-pattern error with one finding per matching
\* pattern.
C2_InjectionBlocked ==
    \A p \in Procs :
        (InExecuteSql(p)
            /\ (PatternsHit(call[p].arg) # {} \/ HasCommentMarker(call[p].arg)))
        => /\ NeverTouchedDatabase(p)
           /\ IsReadOnlyError(result[p]) \/ IsInjectionError(result[p])
           /\ IsReadOnlyError(result[p])
                 => read_only /\ detect_mutating_keywords(call[p].arg) # <<>>
           /\ IsInjectionError(result[p])
                 => /\ Count(result[p].value, "Suspicious pattern detected: ")
                          = Cardinality(PatternsHit(call[p].arg))
                    /\ \A k \in PatternsHit(call[p].arg) :
                          Count(result[p].value, PatternPrefix[k]) = 1

\* C2's case: "SELECT 1; --drop" is refused with one finding, with read_only off
C2_Witness ==
    \E p \in Procs :
        /\ ~read_only
        /\ pc[p] = "done"
        /\ call[p] = [op |-> "execute_sql", arg |-> <<"S","E","L","E","C","T"," ","1",";"," ","-","-","d","r","o","p">>]
        /\ result[p] = Return(InjectionError(<< Finding(2) >>))
        /\ trace[p] = <<>>

\* the positions of the driver call named c in the trace of p
CallsOf(p, c) ==
    {i \in 1..Len(trace[p]) : trace[p][i] = c}

\* p ran a non-read statement that passed the injection check, read_only off
WriteCase(p) ==
    /\ pc[p] = "done"
    /\ call[p].op = "execute_sql"
    /\ ~read_only
    /\ ~IsReadStatement(call[p].arg)
    /\ PatternsHit(call[p].arg) = {}

\* C3 as stated, for the invocations that acquired a connection: with read_only
\* off every non-read statement that passes the injection check is executed
\* once, committed after the execute, and answered with the rows-affected
\* message.
C3_AsStated ==
    \A p \in Procs :
        (WriteCase(p) /\ trace[p] # <<>>)
        => /\ Cardinality(CallsOf(p, "execute")) = 1
           /\ Cardinality(CallsOf(p, "commit")) = 1
           /\ \A e \in CallsOf(p, "execute"), c \in CallsOf(p, "commit") : e < c
           /\ result[p].kind = "return"
           /\ result[p].value[1] = "Query executed successfully. Rows affected: "

\* C3, amended: with read_only off the mutation check is skipped (no read-only
\* error is ever returned); a non-read statement that passes the injection
\* check is executed at most once; and when a connection is acquired and the
\* driver raises no error on execute or commit, it is executed exactly once,
\* committed exactly once, after the execute and before the connection is
\* closed and the call returns, and the text returned is the rows-affected
\* message with the driver's row count.
C3_WriteCommitted ==
    \A p \in Procs :
        /\ (InExecuteSql(p) /\ ~read_only) => ~IsReadOnlyError(result[p])
        /\ WriteCase(p)
           => /\ Cardinality(CallsOf(p, "execute")) <= 1
              /\ (/\ trace[p] # <<>>
                  /\ answer[p].exec_err = NoErr
                  /\ answer[p].commit_err = NoErr)
                 => /\ Cardinality(CallsOf(p, "execute")) = 1
                    /\ Cardinality(CallsOf(p, "commit")) = 1
                    /\ \A e \in CallsOf(p, "execute"), c \in CallsOf(p, "commit"),
                          x \in CallsOf(p, "conn.close") : e < c /\ c < x
                    /\ result[p].kind = "return"
                    /\ result[p].value
                          = << "Query executed successfully. Rows affected: " >>
                               \o IntStr(answer[p].rowcount)

\* C3's case: "UPDATE t SET x=1" with read_only off, two rows affected
C3_Witness ==
    \E p \in Procs :
        /\ WriteCase(p)
        /\ call[p].arg = <<"U","P","D","A","T","E"," ","t"," ","S","E","T"," ","x","=","1">>
        /\ trace[p] = << "connect", "cursor", "execute", "commit", "cursor.close",
                         "conn.close" >>
        /\ result[p] = Return(<< "Query executed successfully. Rows affected: ", "2" >>)

\* p ran a read statement that passed the guard and executed successfully
ReadCase(p) ==
    /\ pc[p] = "done"
    /\ call[p].op = "execute_sql"
    /\ trace[p] # <<>>
    /\ LET q == Strip(call[p].arg)
       IN  Upper(Prefix(q, 6)) = <<"S","E","L","E","C","T">> \/ Upper(Prefix(q, 4)) = <<"W","I","T","H">>
    /\ answer[p].exec_err = NoErr
    /\ answer[p].returns_rows
    /\ answer[p].fetch_err = NoErr

\* the text of line i, i = 0 for the header, of a result of the given width:
\* the items joined by commas
RECURSIVE CommaJoined(_)
CommaJoined(items) ==
    IF Len(items) = 0 THEN <<>>
    ELSE IF Len(items) = 1 THEN items[1]
    ELSE CommaJoined(SubSeq(items, 1, Len(items) - 1)) \o <<",">> \o items[Len(items)]

\* the lines, each followed by a line break except the last
RECURSIVE Lines(_)
Lines(ls) ==
    IF Len(ls) = 0 THEN <<>>
    ELSE IF Len(ls) = 1 THEN ls[1]
    ELSE LET h == Len(ls) \div 2
         IN  Lines(SubSeq(ls, 1, h)) \o <<"\n">> \o Lines(SubSeq(ls, h + 1, Len(ls)))

\* C4: a read statement (SELECT or WITH after trimming, in any case) that
\* passes the guard and executes successfully returns the header line of the
\* column names joined by commas, then one line per row, all rows, each the
\* string forms of the row's cells in column order joined by commas, nothing
\* quoted or escaped.
C4_CsvResult ==
    \A p \in Procs :
        ReadCase(p)
        => LET cols == answer[p].columns
               rows == answer[p].rows
               line(i) == CommaJoined([j \in 1..Len(rows[i]) |-> PyStr(rows[i][j])])
           IN  /\ result[p].kind = "return"
               /\ result[p].value
                     = Lines(<< CommaJoined(cols) >> \o [i \in 1..Len(rows) |-> line(i)])

\* C4's case: "SELECT 1" returns the header and the line "1"
C4_Witness ==
    \E p \in Procs :
        /\ ReadCase(p)
        /\ call[p].arg = <<"S","E","L","E","C","T"," ","1">>
        /\ answer[p].columns = << <<"?","c","o","l","u","m","n","?">> >>
        /\ result[p] = Return(<<"?","c","o","l","u","m","n","?","\n","1">>)

\* a result of more than a hundred rows is returned whole
C4_WitnessLarge ==
    \E p \in Procs :
        /\ ReadCase(p)
        /\ Len(answer[p].rows) = 101
        /\ Count(result[p].value, "\n") = 101

\* the error the driver raised during p's call, NoErr if it raised none
DriverErrorRaised(p) ==
    IF answer[p].exec_err # NoErr THEN answer[p].exec_err
    ELSE IF IsReadStatement(call[p].arg)
    THEN (IF answer[p].returns_rows THEN answer[p].fetch_err ELSE NoErr)
    ELSE answer[p].commit_err

\* C5: once execute_sql holds a connection, a driver error at execute, fetchall
\* or commit is caught: the call returns "Error executing query: " followed by
\* the error's message, and never raises.
C5_DriverErrorCaught ==
    \A p \in Procs :
        (pc[p] = "done" /\ call[p].op = "execute_sql" /\ trace[p] # <<>>)
        => /\ result[p].kind = "return"
           /\ DriverErrorRaised(p) # NoErr
                 => result[p].value = << "Error executing query: ", DriverErrorRaised(p) >>

\* C5's case: an error raised by commit, after a successful execute
C5_Witness ==
    \E p \in Procs :
        /\ pc[p] = "done" /\ call[p].op = "execute_sql"
        /\ "commit" \in Range(trace[p])
        /\ answer[p].commit_err = "network error"
        /\ result[p] = Return(<< "Error executing query: ", "network error" >>)

(***************************************************************************)
(* Properties of the connection scope                                      *)
(***************************************************************************)
\* C6: whatever the interleaving of the handlers, a connection is open only
\* while the invocation that opened it is inside its with block: every open
\* connection belongs to exactly one running invocation, an invocation that
\* has returned or raised holds none, and none is open once all have finished.
C6_ConnectionsScoped ==
    /\ open = {conn[p] : p \in {q \in Procs : pc[q] = "running"}}
    /\ \A p \in Procs : pc[p] # "running" => conn[p] = 0
    /\ \A p, q \in Procs : (p # q /\ pc[p] = "running" /\ pc[q] = "running")
                              => conn[p] # conn[q]
    /\ \A p \in Procs :
          (pc[p] = "done" /\ trace[p] # <<>>)
          => /\ trace[p][1] = "connect"
             /\ trace[p][Len(trace[p])] = "conn.close"
             /\ Count(trace[p], "connect") = 1
             /\ Count(trace[p], "conn.close") = 1

\* C6's case: one invocation has returned after a caught query error and its
\* connection is closed, while another still holds its own
C6_Witness ==
    \E p, q \in Procs :
        /\ pc[p] = "done"
        /\ call[p].op = "execute_sql"
        /\ result[p] = Return(<< "Error executing query: ", "network error" >>)
        /\ pc[q] = "running"
        /\ conn[q] # 0
        /\ open = {conn[q]}

(***************************************************************************)
(* Properties of the introspection tools                                   *)
(***************************************************************************)
\* p has finished the named tool after its catalog query succeeded
Listed(p, op) ==
    /\ pc[p] = "done"
    /\ call[p].op = op
    /\ trace[p] # <<>>
    /\ answer[p].error = NoErr

\* the names of the base tables, views and materialized views of a schema
RelationsOf(cat, schema_name) ==
    {r.name : r \in {x \in cat.rels : x.schema = schema_name
                                         /\ x.kind \in {"r", "v", "m"}}}

\* C7: get_tables(schema) lists every base table, view and materialized view
\* of the schema exactly once, in ascending order of name.
C7_TablesExactlyOnce ==
    \A p \in Procs :
        Listed(p, "get_tables")
        => LET out == result[p].value
           IN  /\ {out[i].name : i \in 1..Len(out)}
                     = RelationsOf(answer[p].catalog, call[p].arg)
               /\ \A i, j \in 1..Len(out) :
                     i < j => Rank(out[i].name) < Rank(out[j].name)

\* C7, without the duplicates: every relation of the schema is listed, nothing
\* else is, and the names never descend
C7_TablesSorted ==
    \A p \in Procs :
        Listed(p, "get_tables")
        => LET out == result[p].value
           IN  /\ {out[i].name : i \in 1..Len(out)}
                     = RelationsOf(answer[p].catalog, call[p].arg)
               /\ \A i, j \in 1..Len(out) :
                     i < j => Rank(out[i].name) <= Rank(out[j].name)

\* the columns of a relation, by ascending attnum, dropped ones left out
RECURSIVE ColumnsFrom(_, _)
ColumnsFrom(name, n) ==
    LET later == {a \in AttrsOf(name) : a.attnum >= n /\ a.attnum > 0 /\ ~a.attisdropped}
    IN  IF later = {} THEN <<>>
        ELSE LET a == CHOOSE x \in later : \A y \in later : x.attnum <= y.attnum
             IN  <<a>> \o ColumnsFrom(name, a.attnum + 1)

\* the foreign key of a column, if a FOREIGN KEY constraint is on it
ForeignKeyOf(cat, schema_name, table, column) ==
    LET fks == {c \in cat.constraints : /\ c.type = "FOREIGN KEY"
                                        /\ c.schema = schema_name
                                        /\ c.table = table
                                        /\ c.column = column}
    IN  IF fks = {} THEN None
        ELSE LET c == CHOOSE x \in fks : TRUE
             IN  Some([referenced_schema |-> Some(c.ref[1].schema),
                       referenced_table |-> Some(c.ref[1].table),
                       referenced_column |-> Some(c.ref[1].column)])

\* C8: get_table_schemas returns one TableSchema per requested table that
\* exists in the schema and none for another name, and each lists every column
\* of its table once, by ascending ordinal position, with the column's
\* nullable, default and foreign-key data.
C8_SchemasExactlyOnce ==
    \A p \in Procs :
        Listed(p, "get_table_schemas")
        => LET out == result[p].value
               cat == answer[p].catalog
               schema_name == call[p].arg.schema_name
           IN  /\ {out[i].name : i \in 1..Len(out)}
                     = RelationsOf(cat, schema_name) \cap Range(call[p].arg.tables)
               /\ \A i, j \in 1..Len(out) : out[i].name = out[j].name => i = j
               /\ \A i \in 1..Len(out) :
                     LET cols == ColumnsFrom(out[i].name, 1)
                     IN  /\ Len(out[i].columns) = Len(cols)
                         /\ \A k \in 1..Len(cols) :
                               /\ out[i].columns[k].name = cols[k].name
                               /\ out[i].columns[k].nullable = ~cols[k].attnotnull
                               /\ out[i].columns[k].default = cols[k].adsrc
                               /\ out[i].columns[k].foreign_key
                                     = ForeignKeyOf(cat, schema_name, out[i].name,
                                                    cols[k].name)

\* C9: when the catalog query of get_tables or get_table_schemas fails on an
\* acquired connection, at execute or at fetchall, the tool returns the empty
\* list and raises nothing.
C9_CatalogErrorEmpty ==
    \A p \in Procs :
        (/\ pc[p] = "done"
         /\ call[p].op \in {"get_tables", "get_table_schemas"}
         /\ trace[p] # <<>>
         /\ answer[p].error # NoErr)
        => /\ result[p].kind = "return"
           /\ Len(result[p].value) = 0

\* C9's case: get_table_schemas whose query fails at fetchall
C9_Witness ==
    \E p \in Procs :
        /\ pc[p] = "done"
        /\ call[p].op = "get_table_schemas"
        /\ call[p].arg.tables = << "orders", "customers" >>
        /\ trace[p] # <<>>
        /\ answer[p].error = "network error"
        /\ "fetchall" \in Range(trace[p])
        /\ result[p] = Return(<<>>)

(***************************************************************************)
(* Properties of the table-data resource                                   *)
(***************************************************************************)
\* the name holds a character that is no letter, digit or underscore
HasForbiddenChar(table_name) ==
    \E i \in 1..Len(table_name) :
        /\ table_name[i] # "_"
        /\ table_name[i] \notin Range(Digits)
        /\ LowerChar(table_name[i]) \notin Range(LowerLetters)

InvalidTableName ==
    Return(<< "Error: Invalid table name" >>)

\* the invocation answered with the error text of a failed query
ReadingError(p) ==
    \E e \in DriverErrors :
        result[p] = Return(<< "Error reading table " >> \o call[p].arg
                              \o << ": ", e >>)

\* the text has a first line followed by at most n further lines
AtMostLines(text, n) ==
    /\ text # <<>>
    /\ Count(text, "\n") <= n

C10_WitnessRefused ==
    \E p \in Procs :
        /\ pc[p] = "done"
        /\ call[p] = [op |-> "get_table_data", arg |-> <<"p","u","b","l","i","c",".","t">>]
        /\ result[p] = InvalidTableName

(***************************************************************************)
(* When execute_sql commits                                                *)
(***************************************************************************)
\* the trimmed, upper-cased text starts with SELECT or WITH
ClassifiedRead(query) ==
    LET q == Upper(Strip(query))
    IN  Prefix(q, 6) = <<"S","E","L","E","C","T">> \/ Prefix(q, 4) = <<"W","I","T","H">>

\* C11: in every execute_sql call a commit is issued at most once, and only
\* after a successful execute of a query whose trimmed, upper-cased text does
\* not start with SELECT or WITH; a query classified as a read statement is
\* never committed, whatever the server answered to it, and no commit is issued
\* on a guard rejection or after an execution error.
C11_CommitOnlyAfterWrite ==
    \A p \in Procs :
        InExecuteSql(p)
        => /\ Cardinality(CallsOf(p, "commit")) <= 1
           /\ \A c \in CallsOf(p, "commit") :
                 /\ \E e \in CallsOf(p, "execute") : e < c
                 /\ answer[p].exec_err = NoErr
                 /\ ~ClassifiedRead(call[p].arg)
           /\ ClassifiedRead(call[p].arg) => CallsOf(p, "commit") = {}
           /\ (IsReadOnlyError(result[p]) \/ IsInjectionError(result[p]))
                 => trace[p] = <<>>
           /\ (trace[p] # <<>> /\ pc[p] = "done" /\ answer[p].exec_err # NoErr)
                 => CallsOf(p, "commit") = {}

\* C11's case: " With q As (Select 2)" is classified as a read statement, is
\* executed and its rows fetched, and the connection is closed with no commit
C11_Witness ==
    \E p \in Procs :
        /\ pc[p] = "done"
        /\ call[p] = [op |-> "execute_sql", arg |-> <<" ","W","i","t","h"," ","q"," ","A","s"," ","(","S","e","l","e","c","t"," ","2",")">>]
        /\ trace[p] = << "connect", "cursor", "execute", "fetchall",
                         "cursor.close", "conn.close" >>
        /\ answer[p].exec_err = NoErr
        /\ answer[p].returns_rows
        /\ result[p].kind = "return"

\* a statement that is not classified as a read is committed once, after the
\* execute
C11_WitnessCommitted ==
    \E p \in Procs :
        /\ pc[p] = "done"
        /\ call[p] = [op |-> "execute_sql", arg |-> <<"S","H","O","W"," ","x">>]
        /\ trace[p] # <<>>
        /\ answer[p].returns_rows
        /\ trace[p] = << "connect", "cursor", "execute", "commit",
                         "cursor.close", "conn.close" >>
====
